---- MODULE Spec2Model ----
(***************************************************************************)
(* A model of the conversational scheduling assistant: the turn handler    *)
(* AppointmentAgent.process_message (src/agent.py), the calendar backend   *)
(* GoogleCalendarService and its in-memory stand-in MockCalendarService    *)
(* (src/calendar_service.py), and the caller's threading of the            *)
(* conversation context (src/app.py).                                      *)
(*                                                                         *)
(* Python values are modelled as follows.                                  *)
(*   str         a sequence of chunks (strings); the date, time and title  *)
(*               texts are sequences of one-character strings, so that     *)
(*               parsing and formatting work on characters                 *)
(*   dict        a function whose domain is the dict's keys                *)
(*   int (JSON)  [n |-> i];  JSON null in a number's place: [null |-> TRUE]*)
(*   a JSON value that is no object, where an object is expected:          *)
(*               the function ("$scalar" :> text)                          *)
(*   datetime    the number of minutes since 0001-01-01 00:00 minus one    *)
(*               day (ordinal * 1440 + hour * 60 + minute); the texts the  *)
(*               agent parses carry no seconds                             *)
(***************************************************************************)
EXTENDS Integers, Sequences, FiniteSets, TLC

VARIABLES
    service,               \* GoogleCalendarService.service: "mock" or "live"
    events,                \* MockCalendarService.events
    next_event_id,         \* MockCalendarService.next_event_id
    remote,                \* the live calendar: the bodies inserted so far
    conversation_context,  \* st.session_state.conversation_context
    now,                   \* the wall clock read by datetime.now()
    turns,                 \* number of turns processed so far
    last,                  \* the last turn: its inputs, calls and response
                           \* (a history: the program reads none of it)
    running                \* the booking turns in progress, by session

vars == <<service, events, next_event_id, remote, conversation_context, now,
          turns, last, running>>

-----------------------------------------------------------------------------
(* Bounds of the model.                                                    *)

MaxTurns == 2

MaxLiveTurns == 1

-----------------------------------------------------------------------------
(* Strings, digits and Python dict helpers.                                *)

DigitChars == <<"0", "1", "2", "3", "4", "5", "6", "7", "8", "9">>

IsDigit(c) == \E i \in 1..10 : DigitChars[i] = c

DigitVal(c) == (CHOOSE i \in 1..10 : DigitChars[i] = c) - 1

AllDigits(s) == \A i \in 1..Len(s) : IsDigit(s[i])

RECURSIVE DigitsToInt(_)
DigitsToInt(s) ==
    IF s = <<>> THEN 0
    ELSE 10 * DigitsToInt(SubSeq(s, 1, Len(s) - 1)) + DigitVal(s[Len(s)])

\* str(n) for n >= 0
RECURSIVE Str(_)
Str(n) ==
    IF n < 10 THEN <<DigitChars[n + 1]>>
    ELSE Str(n \div 10) \o <<DigitChars[(n % 10) + 1]>>

\* "%02d" % n, as strftime("%H:%M") pads each field
TwoDigits(n) == <<DigitChars[(n \div 10) + 1], DigitChars[(n % 10) + 1]>>

\* s.split(sep) on a sequence of characters
RECURSIVE Split(_, _)
Split(s, sep) ==
    IF \A i \in 1..Len(s) : s[i] # sep THEN <<s>>
    ELSE LET k == CHOOSE i \in 1..Len(s) :
                      s[i] = sep /\ \A j \in 1..(i - 1) : s[j] # sep
         IN  <<SubSeq(s, 1, k - 1)>> \o Split(SubSeq(s, k + 1, Len(s)), sep)

\* ", ".join(parts)
RECURSIVE Join(_)
Join(parts) ==
    IF parts = <<>> THEN <<>>
    ELSE IF Len(parts) = 1 THEN <<parts[1]>>
    ELSE <<parts[1], ", ">> \o Join(Tail(parts))

\* d.get(key, default)
Get(d, key, default) == IF key \in DOMAIN d THEN d[key] ELSE default

\* {**d, key: value}
With(d, key, value) ==
    [k \in DOMAIN d \cup {key} |-> IF k = key THEN value ELSE d[k]]

EmptyDict == [k \in {} |-> <<>>]

\* A JSON value that is not an object (null, a string, a list, a number)
\* standing where the code expects a dict.
Scalar(text) == [k \in {"$scalar"} |-> text]

IsDict(v) == "$scalar" \notin DOMAIN v

IntVal(i) == [n |-> i]

JsonNull == [null |-> TRUE]

IsInt(v) == "n" \in DOMAIN v

\* None, where a str is expected (dict.get of an absent key, a create_event
\* that failed)
PyNone == <<"$None">>

\* bool(v) of a str or None
Truthy(v) == v # <<>> /\ v # PyNone

-----------------------------------------------------------------------------
(* datetime: strptime, arithmetic, fields, strftime.                       *)

IsLeap(y) == (y % 4 = 0) /\ ((y % 100 # 0) \/ (y % 400 = 0))

DaysInMonth(y, m) ==
    IF m = 2 THEN (IF IsLeap(y) THEN 29 ELSE 28)
    ELSE IF m \in {4, 6, 9, 11} THEN 30 ELSE 31

RECURSIVE DaysBeforeMonth(_, _)
DaysBeforeMonth(y, m) ==
    IF m = 1 THEN 0 ELSE DaysBeforeMonth(y, m - 1) + DaysInMonth(y, m - 1)

\* date.toordinal()
ToOrdinal(y, m, d) ==
    LET p == y - 1
    IN  p * 365 + (p \div 4) - (p \div 100) + (p \div 400)
        + DaysBeforeMonth(y, m) + d

MinutesPerDay == 1440

DateTime(ord, hour, minute) == ord * MinutesPerDay + hour * 60 + minute

Hour(t) == (t % MinutesPerDay) \div 60

Minute(t) == t % 60

\* dt.replace(hour=h, minute=m, second=0, microsecond=0)
ReplaceTime(t, h, m) == (t - (t % MinutesPerDay)) + h * 60 + m

\* dt.strftime("%H:%M")
StrfHM(t) == TwoDigits(Hour(t)) \o <<":">> \o TwoDigits(Minute(t))

\* A numeric directive of strptime: one to maxlen digits with a value in lo..hi
\* (%Y is exactly four digits).
FieldOk(s, minlen, maxlen, lo, hi) ==
    /\ Len(s) >= minlen
    /\ Len(s) <= maxlen
    /\ AllDigits(s)
    /\ DigitsToInt(s) >= lo
    /\ DigitsToInt(s) <= hi

\* datetime.strptime(s, "%Y-%m-%d"): [ok |-> FALSE] stands for ValueError
ParseDate(s) ==
    LET f == Split(s, "-")
    IN  IF /\ Len(f) = 3
           /\ FieldOk(f[1], 4, 4, 1, 9999)
           /\ FieldOk(f[2], 1, 2, 1, 12)
           /\ FieldOk(f[3], 1, 2, 1, 31)
           /\ DigitsToInt(f[3]) <= DaysInMonth(DigitsToInt(f[1]), DigitsToInt(f[2]))
        THEN [ok |-> TRUE,
              t |-> DateTime(ToOrdinal(DigitsToInt(f[1]), DigitsToInt(f[2]),
                                       DigitsToInt(f[3])), 0, 0)]
        ELSE [ok |-> FALSE, t |-> 0]

\* datetime.strptime(s, "%H:%M"), as minutes after midnight
ParseTime(s) ==
    LET f == Split(s, ":")
    IN  IF /\ Len(f) = 2
           /\ FieldOk(f[1], 1, 2, 0, 23)
           /\ FieldOk(f[2], 1, 2, 0, 59)
        THEN [ok |-> TRUE, t |-> DigitsToInt(f[1]) * 60 + DigitsToInt(f[2])]
        ELSE [ok |-> FALSE, t |-> 0]

\* Mutant of ParseDateTime: only the date of the text is parsed
ParseDateTime_DateOnly(s) ==
    IF Split(s, " ") # <<>> THEN ParseDate(Split(s, " ")[1])
    ELSE [ok |-> FALSE, t |-> 0]

\* datetime.strptime(s, "%Y-%m-%d %H:%M"): the blank of the format stands for
\* one or more blanks of the text
ParseDateTime(s) ==
    LET raw == Split(s, " ")
        f == SelectSeq(raw, LAMBDA x : x # <<>>)
    IN  IF /\ Len(f) = 2
           /\ raw[1] # <<>>
           /\ raw[Len(raw)] # <<>>
           /\ ParseDate(f[1]).ok
           /\ ParseTime(f[2]).ok
        THEN [ok |-> TRUE, t |-> ParseDate(f[1]).t + ParseTime(f[2]).t]
        ELSE [ok |-> FALSE, t |-> 0]

\* utils.validate_datetime_string(date_str, time_str)
validate_datetime_string(date_str, time_str) ==
    /\ ParseDate(date_str).ok
    /\ (Truthy(time_str) => ParseTime(time_str).ok)

-----------------------------------------------------------------------------
(* MockCalendarService (src/calendar_service.py).                          *)

\* Mutant of EventEnd: the minute at which the event ends is taken as occupied
EventEnd_Inclusive(event) == event.start_time + event.duration + 1

EventEnd(event) == event.start_time + event.duration

\* The overlap test of MockCalendarService.check_availability
Overlaps(start_time, end_time, event) ==
    start_time < EventEnd(event) /\ end_time > event.start_time

BusyHour == 14

\* Mutant of Mock_check_availability: the simulated busy hour is left out
Mock_check_availability_NoBusyHour(evs, start_time, duration_minutes) ==
    \A i \in 1..Len(evs) :
        ~Overlaps(start_time, start_time + duration_minutes, evs[i])

Mock_check_availability(evs, start_time, duration_minutes) ==
    LET end_time == start_time + duration_minutes
    IN  IF Hour(start_time) = BusyHour THEN FALSE
        ELSE \A i \in 1..Len(evs) : ~Overlaps(start_time, end_time, evs[i])

MockEventId(n) == <<"mock_event_">> \o Str(n)

\* The backend as one value: the fake's fields and the live calendar
Backend(evs, nid, rem) == [events |-> evs, next_event_id |-> nid, remote |-> rem]

\* Mutant of Mock_create_event: nothing is stored for a slot that
\* check_availability refuses
Mock_create_event_IfFree(be, title, start_time, duration_minutes, description) ==
    [id |-> MockEventId(be.next_event_id),
     be |-> IF Mock_check_availability(be.events, start_time, duration_minutes)
            THEN [be EXCEPT
                    !.next_event_id = be.next_event_id + 1,
                    !.events = Append(be.events,
                                      [id |-> MockEventId(be.next_event_id),
                                       title |-> title,
                                       start_time |-> start_time,
                                       duration |-> duration_minutes,
                                       description |-> description])]
            ELSE be]

Mock_create_event(be, title, start_time, duration_minutes, description) ==
    [id |-> MockEventId(be.next_event_id),
     be |-> [be EXCEPT
               !.next_event_id = be.next_event_id + 1,
               !.events = Append(be.events,
                                 [id |-> MockEventId(be.next_event_id),
                                  title |-> title,
                                  start_time |-> start_time,
                                  duration |-> duration_minutes,
                                  description |-> description])]]

BusinessStartHour == 9

BusinessEndHour == 17

WideStartHour == 8

WideEndHour == 20

start_hour(business_hours_only) ==
    IF business_hours_only THEN BusinessStartHour ELSE WideStartHour

end_hour(business_hours_only) ==
    IF business_hours_only THEN BusinessEndHour ELSE WideEndHour

\* Number of candidates of the two nested loops: two per hour
NumCandidates(business_hours_only) ==
    2 * (end_hour(business_hours_only) - start_hour(business_hours_only))

SlotMinutes == 30

\* The k-th candidate_time of the loops (hour outer, minute in [0, 30] inner)
Candidate(target_date, business_hours_only, k) ==
    ReplaceTime(target_date,
                start_hour(business_hours_only) + ((k - 1) \div 2),
                SlotMinutes * ((k - 1) % 2))

\* Mutant of InPast: no candidate is skipped
InPast_Never(candidate_time, clock) == FALSE

\* candidate_time < datetime.now(): the clock is counted in half minutes, so
\* that a reading with a fraction of a minute lies after the minute itself
InPast(candidate_time, clock) == 2 * candidate_time < clock

MockMaxSuggestions == 5

LiveMaxSuggestions == 10

\* The two nested loops of suggest_times from candidate k on: avail[k] is what
\* check_availability answers for candidate k, clk[k] what datetime.now()
\* returns there, cap the length at which the loops are left. The result is
\* the suggestions and the candidates check_availability was called for.
RECURSIVE ScanSlots(_, _, _, _, _, _, _, _)
ScanSlots(avail, target_date, business_hours_only, clk, cap, k, suggestions, checked) ==
    IF k > NumCandidates(business_hours_only)
    THEN [suggestions |-> suggestions, checked |-> checked]
    ELSE LET candidate_time == Candidate(target_date, business_hours_only, k)
         IN  IF InPast(candidate_time, clk[k])
             THEN ScanSlots(avail, target_date, business_hours_only, clk, cap,
                            k + 1, suggestions, checked)
             ELSE LET s2 == IF avail[k] THEN Append(suggestions, candidate_time)
                            ELSE suggestions
                      c2 == Append(checked, k)
                  IN  IF Len(s2) >= cap
                      THEN [suggestions |-> s2, checked |-> c2]
                      ELSE ScanSlots(avail, target_date, business_hours_only,
                                     clk, cap, k + 1, s2, c2)

MockScan(evs, target_date, duration_minutes, business_hours_only, clk) ==
    ScanSlots([k \in 1..NumCandidates(business_hours_only) |->
                  Mock_check_availability(
                      evs, Candidate(target_date, business_hours_only, k),
                      duration_minutes)],
              target_date, business_hours_only, clk, MockMaxSuggestions, 1,
              <<>>, <<>>)

Mock_suggest_times(evs, target_date, duration_minutes, business_hours_only, clk) ==
    MockScan(evs, target_date, duration_minutes, business_hours_only, clk).suggestions

\* The dict MockCalendarService.get_events returns for a stored event; the
\* start is kept as the datetime its isoformat text stands for
ListedEvent(event) ==
    [id |-> event.id, summary |-> event.title, start |-> event.start_time,
     description |-> event.description]

\* MockCalendarService.get_events: the stored events whose start lies in the
\* range, in the order of the stored list
Mock_get_events(evs, start_date, end_date) ==
    LET kept == SelectSeq(evs, LAMBDA e : start_date <= e.start_time
                                         /\ e.start_time <= end_date)
    IN  [i \in 1..Len(kept) |-> ListedEvent(kept[i])]

-----------------------------------------------------------------------------
(* GoogleCalendarService (src/calendar_service.py). What the live calendar *)
(* answers is not the program's to decide: an oracle names, for one turn,  *)
(* the outcome of events().list() (check), of events().insert() (create)   *)
(* and, for a scan, the candidates whose list() is non-empty or fails      *)
(* (busy).                                                                 *)

ListOutcomes == {"empty", "items", "HttpError", "Exception"}

InsertOutcomes == {"id", "no_id", "HttpError", "Exception"}

LiveEventId(n) == <<"live_event_">> \o Str(n)

\* A call of the calendar service as the turn's trace records it
Call(op, start_time, duration, ok, raised) ==
    [op |-> op, start |-> start_time, duration |-> duration, ok |-> ok,
     raised |-> raised]

\* Mutant of check_availability: every slot is reported free
check_availability_AlwaysFree(svc, be, start_time, duration, list_outcome) ==
    [raised |-> FALSE, value |-> TRUE]

\* check_availability(start_time, duration): duration is the JSON value the
\* agent passes on. The fake raises TypeError on timedelta(minutes=None); the
\* live path catches every exception and answers False.
check_availability(svc, be, start_time, duration, list_outcome) ==
    IF svc = "mock"
    THEN IF ~IsInt(duration) THEN [raised |-> TRUE, value |-> FALSE]
         ELSE [raised |-> FALSE,
               value |-> Mock_check_availability(be.events, start_time, duration.n)]
    ELSE [raised |-> FALSE, value |-> IsInt(duration) /\ list_outcome = "empty"]

\* create_event(title, start_time, duration, description): id is None when the
\* live insert fails or answers without an id
create_event(svc, be, title, start_time, duration, description, insert_outcome) ==
    IF svc = "mock"
    THEN Mock_create_event(be, title, start_time, duration.n, description)
    ELSE IF IsInt(duration) /\ insert_outcome \in {"id", "no_id"}
         THEN [id |-> IF insert_outcome = "id"
                      THEN LiveEventId(Len(be.remote) + 1) ELSE PyNone,
               be |-> [be EXCEPT !.remote =
                          Append(be.remote,
                                 [summary |-> title,
                                  description |-> description,
                                  start |-> start_time,
                                  end |-> start_time + duration.n])]]
         ELSE [id |-> PyNone, be |-> be]

\* The loops of GoogleCalendarService.suggest_times on the live calendar
LiveScan(busy, duration, target_date, business_hours_only, clk) ==
    ScanSlots([k \in 1..NumCandidates(business_hours_only) |->
                  IsInt(duration) /\ k \notin busy],
              target_date, business_hours_only, clk, LiveMaxSuggestions, 1,
              <<>>, <<>>)

\* suggest_times(target_date, duration, business_hours_only): the fake's scan
\* raises TypeError at its first check when the duration is no number
suggest_times(svc, be, target_date, duration, business_hours_only, clk, busy) ==
    IF svc = "mock"
    THEN IF IsInt(duration)
         THEN LET r == MockScan(be.events, target_date, duration.n,
                                business_hours_only, clk)
              IN  [raised |-> FALSE, suggestions |-> r.suggestions,
                   checked |-> r.checked]
         ELSE LET r == MockScan(<<>>, target_date, 0, business_hours_only, clk)
              IN  IF r.checked = <<>>
                  THEN [raised |-> FALSE, suggestions |-> <<>>, checked |-> <<>>]
                  ELSE [raised |-> TRUE, suggestions |-> <<>>,
                        checked |-> <<r.checked[1]>>]
    ELSE LET r == LiveScan(busy, duration, target_date, business_hours_only, clk)
         IN  [raised |-> FALSE, suggestions |-> r.suggestions,
              checked |-> r.checked]

-----------------------------------------------------------------------------
(* AppointmentAgent (src/agent.py): the three action handlers. A handler   *)
(* yields the dict it returns, or the exception it lets escape, with the   *)
(* backend it leaves and the calendar-service calls it made, in order.     *)

DefaultDuration == 60

Returns(result, be, calls) ==
    [raised |-> FALSE, exc |-> "", result |-> result, be |-> be, calls |-> calls]

Raises(exc, be, calls) ==
    [raised |-> TRUE, exc |-> exc, result |-> EmptyDict, be |-> be, calls |-> calls]

\* ai_response.get('context', {})
ContextOf(ai_response) == Get(ai_response, "context", EmptyDict)

\* The dict an except branch returns: a message built around str(e), and the
\* extractor's context
Apology(prefix, exc, suffix, ai_response) ==
    [message |-> <<prefix, exc, suffix>>, context |-> ContextOf(ai_response)]

\* str(duration) of a number
StrInt(i) == IF i < 0 THEN <<"-">> \o Str(0 - i) ELSE Str(i)

AskDateForCheck ==
    <<"I need a specific date to check availability. What date are you thinking about?">>

AvailableMessage(date_str, time_str) ==
    <<"Great! You're available on ">> \o date_str
    \o (IF Truthy(time_str) THEN <<" at ">> \o time_str ELSE <<>>)
    \o <<". Would you like me to book an appointment?">>

BusyMessage(date_str, time_str) ==
    <<"You have a conflict on ">> \o date_str
    \o (IF Truthy(time_str) THEN <<" at ">> \o time_str ELSE <<>>)
    \o <<". Would you like me to suggest some alternative times?">>

\* Mutant of _check_availability: the handler takes an id from the fake's
\* counter for the slot it is asked about
_check_availability_Counting(parameters, ai_response, svc, be, oracle) ==
    Returns([message |-> AskDateForCheck, context |-> ContextOf(ai_response)],
            [be EXCEPT !.next_event_id = be.next_event_id + 1], <<>>)

_check_availability(parameters, ai_response, svc, be, oracle) ==
    IF ~IsDict(parameters) THEN Raises("AttributeError", be, <<>>)
    ELSE
    LET date_str == Get(parameters, "date", PyNone)
        time_str == Get(parameters, "time", PyNone)
        duration == Get(parameters, "duration", IntVal(DefaultDuration))
        failed(exc) == Apology("I had trouble checking your calendar: ", exc, "",
                               ai_response)
    IN  IF ~Truthy(date_str)
        THEN Returns([message |-> AskDateForCheck,
                      context |-> ContextOf(ai_response)], be, <<>>)
        ELSE
        LET parsed == IF Truthy(time_str)
                      THEN ParseDateTime(date_str \o <<" ">> \o time_str)
                      ELSE ParseDate(date_str)
        IN  IF ~parsed.ok THEN Returns(failed("ValueError"), be, <<>>)
            ELSE
            LET is_available == check_availability(svc, be, parsed.t, duration,
                                                   oracle.check)
                calls == <<Call("check_availability", parsed.t, duration,
                                is_available.value, is_available.raised)>>
            IN  IF is_available.raised \/ ~IsDict(ContextOf(ai_response))
                THEN Returns(failed("TypeError"), be, calls)
                ELSE Returns(
                       [message |-> IF is_available.value
                                    THEN AvailableMessage(date_str, time_str)
                                    ELSE BusyMessage(date_str, time_str),
                        context |-> With(ContextOf(ai_response),
                                         "last_availability_check",
                                         [date |-> date_str,
                                          time |-> time_str,
                                          available |-> is_available.value])],
                       be, calls)

required_fields == <<"date", "time", "title">>

\* Mutant of missing_fields: only absent keys count, empty values do not
missing_fields_AbsentOnly(parameters) ==
    SelectSeq(required_fields, LAMBDA field : field \notin DOMAIN parameters)

missing_fields(parameters) ==
    SelectSeq(required_fields, LAMBDA field : ~Truthy(Get(parameters, field, PyNone)))

MissingMessage(missing) ==
    <<"I need more information to book the appointment. Please provide: ">>
    \o Join(missing)

ConflictMessage(parameters) ==
    <<"There's a conflict at ">> \o parameters["time"] \o <<" on ">>
    \o parameters["date"]
    \o <<". Would you like me to suggest alternative times?">>

BookedMessage(parameters, duration, event_id) ==
    <<"Perfect! I've booked '">> \o parameters["title"] \o <<"' for ">>
    \o parameters["date"] \o <<" at ">> \o parameters["time"] \o <<".">>
    \o (IF duration # IntVal(DefaultDuration)
        THEN <<" Duration: ">> \o StrInt(duration.n) \o <<" minutes.">>
        ELSE <<>>)
    \o <<" Event ID: ">> \o event_id

NotBookedMessage == <<"I had trouble booking the appointment. Please try again.">>

\* Mutant of Refused: the answer of the availability check is ignored
Refused_Never(free) == FALSE

\* if not self.calendar_service.check_availability(start_time, duration)
Refused(free) == ~free.value

\* The keywords of the call of create_event in _book_appointment
CreateEventKeywords == {"title", "start_time", "duration", "description"}

\* The parameters of GoogleCalendarService.create_event
CreateEventParameters == {"title", "start_time", "duration_minutes", "description"}

\* Mutant of Binds: a keyword that names no parameter is accepted
Binds_Any(keywords, parameters) == TRUE

\* A call with keyword arguments enters the function only if every keyword
\* names one of its parameters; otherwise the call raises TypeError
Binds(keywords, parameters) == keywords \subseteq parameters

\* Mutant of _book_appointment: a complete request is booked without the
\* availability check
_book_appointment_Unchecked(parameters, ai_response, svc, be, oracle) ==
    IF \/ ~IsDict(parameters)
       \/ missing_fields(parameters) # <<>>
       \/ ~ParseDateTime(parameters["date"] \o <<" ">> \o parameters["time"]).ok
       \/ ~IsInt(Get(parameters, "duration", IntVal(DefaultDuration)))
    THEN Returns([message |-> NotBookedMessage, context |-> ContextOf(ai_response)],
                 be, <<>>)
    ELSE LET start_time == ParseDateTime(parameters["date"] \o <<" ">>
                                         \o parameters["time"]).t
             duration == Get(parameters, "duration", IntVal(DefaultDuration))
             created == create_event(svc, be, parameters["title"], start_time,
                                     duration, Get(parameters, "description", <<>>),
                                     oracle.create)
         IN  Returns([message |-> BookedMessage(parameters, duration, created.id),
                      context |-> ContextOf(ai_response)],
                     created.be,
                     <<Call("create_event", start_time, duration,
                            Truthy(created.id), FALSE)>>)

_book_appointment(parameters, ai_response, svc, be, oracle) ==
    IF ~IsDict(parameters) THEN Raises("AttributeError", be, <<>>)
    ELSE IF missing_fields(parameters) # <<>>
    THEN IF ~IsDict(ContextOf(ai_response)) THEN Raises("TypeError", be, <<>>)
         ELSE Returns([message |-> MissingMessage(missing_fields(parameters)),
                       context |-> With(ContextOf(ai_response), "pending_booking",
                                        parameters)], be, <<>>)
    ELSE
    LET datetime_str == parameters["date"] \o <<" ">> \o parameters["time"]
        parsed == ParseDateTime(datetime_str)
        duration == Get(parameters, "duration", IntVal(DefaultDuration))
        failed(exc) == Apology("I encountered an error while booking: ", exc, "",
                               ai_response)
    IN  IF ~parsed.ok THEN Returns(failed("ValueError"), be, <<>>)
        ELSE
        LET free == check_availability(svc, be, parsed.t, duration, oracle.check)
            checked == <<Call("check_availability", parsed.t, duration,
                              free.value, free.raised)>>
        IN  IF free.raised THEN Returns(failed("TypeError"), be, checked)
            ELSE IF Refused(free)
            THEN Returns([message |-> ConflictMessage(parameters),
                          context |-> ContextOf(ai_response)], be, checked)
            ELSE IF ~Binds(CreateEventKeywords, CreateEventParameters)
            THEN Returns(failed("TypeError"), be,
                         Append(checked, Call("create_event", parsed.t, duration,
                                              FALSE, TRUE)))
            ELSE
            LET created == create_event(svc, be, parameters["title"], parsed.t,
                                        duration,
                                        Get(parameters, "description", <<>>),
                                        oracle.create)
                calls == Append(checked,
                                Call("create_event", parsed.t, duration,
                                     Truthy(created.id), FALSE))
            IN  IF ~IsDict(ContextOf(ai_response))
                THEN Returns(failed("TypeError"), created.be, calls)
                ELSE Returns(
                       [message |-> IF Truthy(created.id)
                                    THEN BookedMessage(parameters, duration,
                                                       created.id)
                                    ELSE NotBookedMessage,
                        context |-> With(ContextOf(ai_response), "last_booking",
                                         [event_id |-> created.id,
                                          title |-> parameters["title"],
                                          datetime |-> datetime_str])],
                       created.be, calls)

AskDateForSuggest ==
    <<"What date would you like me to check for available times?">>

ShownSuggestions == 5

\* Mutant of Shown: every suggestion of the service is shown
Shown_All(suggestions) == suggestions

\* suggestions[:5]
Shown(suggestions) ==
    SubSeq(suggestions, 1, IF Len(suggestions) < ShownSuggestions
                           THEN Len(suggestions) ELSE ShownSuggestions)

\* The numbered lines "{i}. {HH:MM}\n" for the slots from the i-th on
RECURSIVE NumberedLines(_, _)
NumberedLines(slots, i) ==
    IF i > Len(slots) THEN <<>>
    ELSE Str(i) \o <<". ">> \o StrfHM(slots[i]) \o <<"\n">>
         \o NumberedLines(slots, i + 1)

\* Mutant of SuggestionsMessage: the list is announced also when it is empty
SuggestionsMessage_NeverEmpty(date_str, suggestions) ==
    <<"Here are some available times on ">> \o date_str \o <<":\n">>
    \o NumberedLines(Shown(suggestions), 1)
    \o <<"\nWhich time works best for you?">>

SuggestionsMessage(date_str, suggestions) ==
    IF suggestions # <<>>
    THEN <<"Here are some available times on ">> \o date_str \o <<":\n">>
         \o NumberedLines(Shown(suggestions), 1)
         \o <<"\nWhich time works best for you?">>
    ELSE <<"I couldn't find any available slots on ">> \o date_str
         \o <<". Would you like to try a different date?">>

_suggest_times(parameters, ai_response, svc, be, oracle, clock) ==
    IF ~IsDict(parameters) THEN Raises("AttributeError", be, <<>>)
    ELSE
    LET date_str == Get(parameters, "date", PyNone)
        duration == Get(parameters, "duration", IntVal(DefaultDuration))
        failed(exc) == Apology("I had trouble finding available times: ", exc, "",
                               ai_response)
    IN  IF ~Truthy(date_str)
        THEN Returns([message |-> AskDateForSuggest,
                      context |-> ContextOf(ai_response)], be, <<>>)
        ELSE IF ~ParseDate(date_str).ok THEN Returns(failed("ValueError"), be, <<>>)
        ELSE
        LET target_date == ParseDate(date_str).t
            found == suggest_times(svc, be, target_date, duration, TRUE,
                                   [k \in 1..NumCandidates(TRUE) |-> clock],
                                   oracle.busy)
            calls == <<Call("suggest_times", target_date, duration,
                            ~found.raised, found.raised)>>
                     \o [i \in 1..Len(found.checked) |->
                           Call("check_availability",
                                Candidate(target_date, TRUE, found.checked[i]),
                                duration,
                                \E j \in 1..Len(found.suggestions) :
                                    found.suggestions[j] =
                                        Candidate(target_date, TRUE, found.checked[i]),
                                found.raised)]
        IN  IF found.raised \/ ~IsDict(ContextOf(ai_response))
            THEN Returns(failed("TypeError"), be, calls)
            ELSE Returns(
                   [message |-> SuggestionsMessage(date_str, found.suggestions),
                    context |-> With(ContextOf(ai_response), "suggested_times",
                                     [i \in 1..Len(Shown(found.suggestions)) |->
                                        StrfHM(Shown(found.suggestions)[i])])],
                   be, calls)

-----------------------------------------------------------------------------
(* AppointmentAgent: dispatch and the turn.                                *)

\* The except branch of _execute_action: whatever a handler lets escape
\* becomes a dict with a message and the extractor's context
Caught(handled, ai_response) ==
    IF handled.raised
    THEN Returns(Apology("I had trouble with that request: ", handled.exc,
                         ". Could you please try again?", ai_response),
                 handled.be, handled.calls)
    ELSE handled

\* _execute_action: an unknown action returns ai_response itself
_execute_action(ai_response, svc, be, oracle, clock) ==
    Caught(
        LET action == Get(ai_response, "action", "")
            parameters == Get(ai_response, "parameters", EmptyDict)
        IN  IF action = "check_availability"
            THEN _check_availability(parameters, ai_response, svc, be, oracle)
            ELSE IF action = "book_appointment"
            THEN _book_appointment(parameters, ai_response, svc, be, oracle)
            ELSE IF action = "suggest_times"
            THEN _suggest_times(parameters, ai_response, svc, be, oracle, clock)
            ELSE Returns(ai_response, be, <<>>),
        ai_response)

\* Mutant of _get_ai_response: the context of the parsed value is dropped
_get_ai_response_FreshContext(extractor, context) ==
    IF extractor.kind = "json"
    THEN [raised |-> FALSE, value |-> With(extractor.value, "context", EmptyDict)]
    ELSE [raised |-> TRUE, value |-> EmptyDict]

\* What the extractor (the chat completion) yields in a turn:
\*   [kind |-> "json", value |-> v]       content that json.loads accepts
\*   [kind |-> "text", content |-> text]  content that is not JSON
\*   [kind |-> "error", exc |-> name]     the call, or json.loads, raises
\* _get_ai_response returns the parsed value, or the general_chat fallback
_get_ai_response(extractor, context) ==
    IF extractor.kind = "json" THEN [raised |-> FALSE, value |-> extractor.value]
    ELSE IF extractor.kind = "text"
    THEN [raised |-> FALSE,
          value |-> [message |-> extractor.content,
                     action |-> "general_chat",
                     context |-> context]]
    ELSE [raised |-> TRUE, value |-> EmptyDict]

ErrorResponse(exc, context) ==
    [message |-> <<"I encountered an error: ", exc, ". Please try again.">>,
     action |-> "error",
     context |-> context]

\* The dict ai_response after the two assignments of process_message
Merged(ai_response, result) ==
    With(With(ai_response, "message", Get(result, "message", ai_response["message"])),
         "context", Get(result, "context", ContextOf(ai_response)))

\* What process_message returns, with the backend it leaves and the
\* calendar-service calls of the turn; assigned tells whether the two item
\* assignments of process_message were carried out
Outcome(response, be, calls) == [response |-> response, be |-> be, calls |-> calls, assigned |-> FALSE]

\* The lines of process_message after _execute_action returned done: the two
\* assignments, of which the first reads ai_response['message']
Fold(ai_response, done, context) ==
    IF done.result = EmptyDict THEN Outcome(ai_response, done.be, done.calls)
    ELSE IF "message" \notin DOMAIN ai_response
    THEN Outcome(ErrorResponse("KeyError", context), done.be, done.calls)
    ELSE [Outcome(Merged(ai_response, done.result), done.be, done.calls) EXCEPT !.assigned = TRUE]

\* The try block of process_message once _get_ai_response returned
Dispatch(ai_response, context, svc, be, oracle, clock) ==
    IF ~IsDict(ai_response)
    THEN Outcome(ErrorResponse("AttributeError", context), be, <<>>)
    ELSE IF Get(ai_response, "action", "") \in {"", "general_chat"}
    THEN Outcome(ai_response, be, <<>>)
    ELSE Fold(ai_response, _execute_action(ai_response, svc, be, oracle, clock),
              context)

\* process_message(user_message, context) with a context that is not None
ProcessWith(context, extractor, svc, be, oracle, clock) ==
    IF _get_ai_response(extractor, context).raised
    THEN Outcome(ErrorResponse(extractor.exc, context), be, <<>>)
    ELSE Dispatch(_get_ai_response(extractor, context).value, context, svc, be,
                  oracle, clock)

process_message(context, extractor, svc, be, oracle, clock) ==
    ProcessWith(IF context = Scalar("null") THEN EmptyDict ELSE context,
                extractor, svc, be, oracle, clock)

-----------------------------------------------------------------------------
(* The caller (src/app.py) and the state machine.                          *)

NoOracle == [check |-> "empty", create |-> "id", busy |-> {}]

\* The keys of the parameters that make a booking request
RequestKeys == {"date", "time", "duration", "title"}

SameRequest(p, q) ==
    \A k \in RequestKeys :
        /\ (k \in DOMAIN p) = (k \in DOMAIN q)
        /\ (k \in DOMAIN p => p[k] = q[k])

\* The turn created an event: its last call is a create_event that returned an id
Booked(turn) ==
    /\ turn # EmptyDict
    /\ turn.calls # <<>>
    /\ turn.calls[Len(turn.calls)].op = "create_event"
    /\ turn.calls[Len(turn.calls)].ok

\* History: the extractor yields the request the previous turn has just booked
Repeats(extractor) ==
    /\ Booked(last)
    /\ extractor.kind = "json"
    /\ IsDict(extractor.value)
    /\ Get(extractor.value, "action", "") = "book_appointment"
    /\ IsDict(Get(extractor.value, "parameters", EmptyDict))
    /\ SameRequest(Get(extractor.value, "parameters", EmptyDict),
                   last.extractor.value.parameters)

\* The dict objects of a call of process_message, by name: the caller's
\* context, the dict json.loads builds, and the dict literal of the fallback
CallerDict == "context"

\* Mutant of ReturnedDict: _get_ai_response hands back the caller's dict
ReturnedDict_Caller(extractor) == CallerDict

\* The dict object _get_ai_response returns, to which process_message assigns
ReturnedDict(extractor) == IF extractor.kind = "json" THEN "loaded" ELSE "literal"

\* The caller's dict after process_message returned: the two item
\* assignments reach it only if they are made to that very object
CallerAfter(context, extractor, out) ==
    IF out.assigned /\ ReturnedDict(extractor) = CallerDict
    THEN With(With(context, "message", out.response["message"]), "context", out.response["context"])
    ELSE context

\* What main() does with the response: the context is stored for the next turn
Respond(extractor, oracle, out) ==
    /\ events' = out.be.events
    /\ next_event_id' = out.be.next_event_id
    /\ remote' = out.be.remote
    /\ conversation_context' = Get(out.response, "context", EmptyDict)
    /\ turns' = turns + 1
    /\ last' = [context |-> conversation_context,
                extractor |-> extractor,
                oracle |-> oracle,
                clock |-> now,
                caller |-> CallerAfter(conversation_context, extractor, out),
                repeats |-> Repeats(extractor),
                before |-> Backend(events, next_event_id, remote),
                calls |-> out.calls,
                response |-> out.response]
    /\ UNCHANGED <<running, service, now>>

\* One turn of the chat: main() passes the session's context to
\* process_message
Turn(extractor, oracle) ==
    Respond(extractor, oracle,
            process_message(conversation_context, extractor, service,
                            Backend(events, next_event_id, remote), oracle, now))

\* The sidebar's "Clear Conversation" button
ClearConversation ==
    /\ conversation_context # EmptyDict
    /\ conversation_context' = EmptyDict
    /\ UNCHANGED <<running, service, events, next_event_id, remote, now, turns, last>>

-----------------------------------------------------------------------------
(* Inputs of the turns: what the extractor and the clock may yield.        *)

Date1 == <<"2", "0", "2", "5", "-", "0", "3", "-", "1", "0">>

Time10 == <<"1", "0", ":", "0", "0">>

Time1030 == <<"1", "0", ":", "3", "0">>

Time11 == <<"1", "1", ":", "0", "0">>

Time14 == <<"1", "4", ":", "0", "0">>

TitleSync == <<"Sync">>

ExtractorMessage == <<"Let me take care of that.">>

\* An optional parameter left out by the extractor
AbsentStr == <<"$absent">>

AbsentNum == [absent |-> TRUE]

\* The parameters dict with the given values, absent ones left out
Parameters(date, time, title, duration) ==
    LET all == [date |-> date, time |-> time, title |-> title]
        keys == {k \in {"date", "time", "title"} : all[k] # AbsentStr}
                \cup (IF duration # AbsentNum THEN {"duration"} ELSE {})
    IN  [k \in keys |-> IF k = "duration" THEN duration ELSE all[k]]

Intent(action, parameters, context) ==
    [kind |-> "json",
     value |-> [message |-> ExtractorMessage, action |-> action,
                parameters |-> parameters, context |-> context]]

\* The booking requests of a dialogue: each required field present or absent,
\* complete requests for a free hour, the busy hour, a slot overlapping the
\* free hour, the slot right after it, and an empty duration, and a request
\* with an empty title
BookingParameters ==
    {Parameters(d, t, ti, AbsentNum) :
        d \in {AbsentStr, Date1}, t \in {AbsentStr, Time10},
        ti \in {AbsentStr, TitleSync}}
    \cup {Parameters(Date1, t, TitleSync, AbsentNum) :
        t \in {Time14, Time1030, Time11}}
    \cup {Parameters(Date1, Time10, TitleSync, IntVal(0)),
          Parameters(Date1, Time10, <<>>, AbsentNum)}

\* The intents of a dialogue; the extractor returns the prior context, or an
\* empty one
DialogueIntents(context) ==
    LET contexts == {EmptyDict, IF IsDict(context) THEN context ELSE EmptyDict}
    IN  {Intent("book_appointment", p, c) : p \in BookingParameters, c \in contexts}
        \cup {Intent("check_availability", Parameters(d, t, AbsentStr, AbsentNum), c) :
            d \in {AbsentStr, Date1}, t \in {AbsentStr, Time10, Time14},
            c \in contexts}
        \cup {Intent("suggest_times", Parameters(d, AbsentStr, AbsentStr, AbsentNum), c) :
            d \in {AbsentStr, Date1}, c \in contexts}
        \cup {Intent("general_chat", EmptyDict, c) : c \in contexts}

\* Clock readings, in half minutes: midnight before the business hours of
\* Date1, and midnight after them
ClockReadings ==
    {2 * ParseDate(Date1).t, 2 * (ParseDate(Date1).t + MinutesPerDay)}

\* Time passes between turns
Tick ==
    /\ \E later \in ClockReadings : later > now /\ now' = later
    /\ UNCHANGED <<running, service, events, next_event_id, remote, conversation_context,
                   turns, last>>

-----------------------------------------------------------------------------
(* The dialogue: against the in-memory fake when credentials.json is       *)
(* absent or authentication fails, against the live calendar otherwise.    *)

InitWith(services) ==
    /\ service \in services
    /\ events = <<>>
    /\ next_event_id = 1
    /\ remote = <<>>
    /\ conversation_context = EmptyDict
    /\ now \in ClockReadings
    /\ turns = 0
    /\ last = EmptyDict
    /\ running = EmptyDict

Init == InitWith({"mock", "live"})

\* What the live calendar may answer in a turn with the given intent: the
\* outcomes of the calls the intent's action makes
Oracles(extractor) ==
    LET action == extractor.value.action
    IN  IF action = "book_appointment"
        THEN {[check |-> c, create |-> "id", busy |-> {}] :
                 c \in ListOutcomes \ {"empty"}}
             \cup {[check |-> "empty", create |-> c, busy |-> {}] :
                 c \in InsertOutcomes}
        ELSE IF action = "check_availability"
        THEN {[check |-> c, create |-> "id", busy |-> {}] : c \in ListOutcomes}
        ELSE IF action = "suggest_times"
        THEN {[check |-> "empty", create |-> "id", busy |-> b] :
                 b \in {{}, {1, 2, 3}, 1..NumCandidates(TRUE)}}
        ELSE {NoOracle}

DialogueTurn ==
    /\ service = "mock"
    /\ turns < MaxTurns
    /\ \E extractor \in DialogueIntents(conversation_context) :
          Turn(extractor, NoOracle)

LiveTurn ==
    /\ service = "live"
    /\ turns < MaxLiveTurns
    /\ \E extractor \in DialogueIntents(conversation_context) :
          \E oracle \in Oracles(extractor) : Turn(extractor, oracle)

Next == DialogueTurn \/ LiveTurn \/ ClearConversation \/ Tick

Spec == Init /\ [][Next]_vars

-----------------------------------------------------------------------------
(* process_message as a function of its inputs: any prior context, any     *)
(* output of the extractor, well-formed or not, and any date and time      *)
(* text.                                                                   *)

MaxInputTurns == 1

DateUnpadded == <<"2", "0", "2", "5", "-", "3", "-", "1", "0">>

DateFeb30 == <<"2", "0", "2", "5", "-", "0", "2", "-", "3", "0">>

DateSlashes == <<"0", "3", "/", "1", "0", "/", "2", "0", "2", "5">>

Time95 == <<"9", ":", "5">>

Time2500 == <<"2", "5", ":", "0", "0">>

InputDates == {Date1, <<>>, DateUnpadded, DateFeb30, DateSlashes}

InputTimes == {Time10, <<>>, Time95, Time2500}

\* A context a check_availability turn has returned
CheckedContext ==
    [last_availability_check |->
        [date |-> Date1, time |-> Time10, available |-> TRUE]]

\* A JSON object of the extractor holding the given keys only
Shape(keys, action, parameters, context) ==
    [k \in keys |->
        CASE k = "message" -> ExtractorMessage
          [] k = "action" -> action
          [] k = "parameters" -> parameters
          [] k = "context" -> context]

IntentKeys == {"message", "action", "parameters", "context"}

\* Objects that lack keys of the schema, or name an action outside it
PartialObjects(context) ==
    {[kind |-> "json",
      value |-> Shape(keys, action,
                      Parameters(Date1, Time10, TitleSync, AbsentNum), context)] :
        keys \in {IntentKeys \ {k} : k \in IntentKeys}
                 \cup {IntentKeys, {"action"}, {}},
        action \in {"general_chat", "delete_event", "check_availability",
                    "book_appointment", "suggest_times"}}

\* Objects whose parameters, context or duration has the wrong type
MistypedObjects(context) ==
    {Intent(action, parameters, context) :
        action \in {"check_availability", "book_appointment", "suggest_times"},
        parameters \in
            {Scalar("text"), Scalar("null"),
             Parameters(Date1, Time10, TitleSync, JsonNull)}}
    \cup {Intent(action, Parameters(Date1, Time10, TitleSync, AbsentNum), c) :
        action \in {"check_availability", "book_appointment", "suggest_times"},
        c \in {Scalar("text"), Scalar("null")}}

\* Intents of the three actions with any date and time text
DateTimeIntents(context) ==
    {Intent(action, Parameters(d, t, TitleSync, AbsentNum), context) :
        action \in {"check_availability", "book_appointment"},
        d \in InputDates, t \in InputTimes}
    \cup {Intent("suggest_times", Parameters(d, t, AbsentStr, AbsentNum), context) :
        d \in InputDates, t \in {Time10, Time2500}}

\* Every output of the extractor of this specification
ExtractorOutputs(context) ==
    PartialObjects(context) \cup MistypedObjects(context)
    \cup DateTimeIntents(context)
    \cup {[kind |-> "json", value |-> Scalar("list")],
          [kind |-> "text", content |-> <<"Sure, which day suits you?">>],
          [kind |-> "error", exc |-> "APIConnectionError"]}

\* What the live calendar answers in such a turn: success, a failing list(),
\* or a failing insert()
InputOracles(extractor) ==
    IF /\ extractor.kind = "json"
       /\ IsDict(extractor.value)
       /\ Get(extractor.value, "action", "") \in
             {"check_availability", "book_appointment"}
    THEN {NoOracle,
          [check |-> "HttpError", create |-> "id", busy |-> {}],
          [check |-> "empty", create |-> "Exception", busy |-> {}]}
    ELSE {NoOracle}

InitInputs ==
    /\ service \in {"mock", "live"}
    /\ events = <<>>
    /\ next_event_id = 1
    /\ remote = <<>>
    /\ conversation_context \in {EmptyDict, CheckedContext}
    /\ now \in ClockReadings
    /\ turns = 0
    /\ last = EmptyDict
    /\ running = EmptyDict

\* process_message is called with the session's context and the extractor
\* answers anything
InputTurn ==
    /\ turns < MaxInputTurns
    /\ \E extractor \in ExtractorOutputs(
            IF IsDict(conversation_context) THEN conversation_context
            ELSE EmptyDict) :
          \E oracle \in (IF service = "live" THEN InputOracles(extractor)
                         ELSE {NoOracle}) :
              Turn(extractor, oracle)

NextInputs == InputTurn \/ Tick

SpecInputs == InitInputs /\ [][NextInputs]_vars

-----------------------------------------------------------------------------
(* The calendar service called directly: create_event and suggest_times    *)
(* for any stored events, target date, duration and clock.  In this        *)
(* specification last describes the last call of the service.              *)

MaxEvents == 2

\* Starts and durations of the stored events: on and off the grid, inside
\* and across the business hours of Date1
StoredStarts ==
    {ReplaceTime(ParseDate(Date1).t, 9, 0),
     ReplaceTime(ParseDate(Date1).t, 10, 45),
     ReplaceTime(ParseDate(Date1).t, 16, 30)}

StoredDurations == {30, 120}

\* Target dates: Date1 with a time of day, and the day before at midnight
TargetDates ==
    {ReplaceTime(ParseDate(Date1).t, 13, 20),
     ParseDate(Date1).t - MinutesPerDay}

SuggestDurations == {30, 60}

\* Readings of datetime.now(), in half minutes: the midnight before Date1's
\* business hours, 11:00:30 and 15:30:00 of Date1
BackendClockReadings ==
    {2 * ParseDate(Date1).t,
     2 * ReplaceTime(ParseDate(Date1).t, 11, 0) + 1,
     2 * ReplaceTime(ParseDate(Date1).t, 15, 30)}

\* Candidates of a scan for which the live calendar lists an event, or fails
BusySets == {{}, {2, 4, 6, 7, 8, 10, 12}, 1..16}

InitBackend ==
    /\ service \in {"mock", "live"}
    /\ events = <<>>
    /\ next_event_id = 1
    /\ remote = <<>>
    /\ conversation_context = EmptyDict
    /\ now \in BackendClockReadings
    /\ turns = 0
    /\ last = EmptyDict
    /\ running = EmptyDict

\* MockCalendarService.create_event called with any start and duration
BackendCreate ==
    /\ service = "mock"
    /\ Len(events) < MaxEvents
    /\ \E start_time \in StoredStarts, duration \in StoredDurations :
          LET made == Mock_create_event(Backend(events, next_event_id, remote),
                                        TitleSync, start_time, duration, <<>>)
          IN  /\ events' = made.be.events
              /\ next_event_id' = made.be.next_event_id
              /\ last' = [op |-> "create_event", id |-> made.id]
    /\ UNCHANGED <<running, service, remote, conversation_context, now, turns>>

\* The record of a suggest_times call and of what it returned
Suggested(target_date, duration, business_hours_only, clk, busy, found) ==
    [op |-> "suggest_times", target_date |-> target_date, duration |-> duration,
     business_hours_only |-> business_hours_only, clock |-> clk[1],
     busy |-> busy, raised |-> found.raised, suggestions |-> found.suggestions]

\* suggest_times called with any date and duration, for business hours; the
\* clock may move on to a later reading while the loops run
BackendSuggest ==
    /\ \E target_date \in TargetDates, duration \in SuggestDurations,
          later \in {r \in BackendClockReadings : r >= now},
          busy \in (IF service = "live" THEN BusySets ELSE {{}}) :
          /\ last' = Suggested(target_date, duration, TRUE,
                               [k \in 1..NumCandidates(TRUE) |->
                                   IF k < 7 THEN now ELSE later],
                               busy,
                               suggest_times(service,
                                   Backend(events, next_event_id, remote),
                                   target_date, IntVal(duration), TRUE,
                                   [k \in 1..NumCandidates(TRUE) |->
                                       IF k < 7 THEN now ELSE later],
                                   busy))
          /\ now' = later
    /\ UNCHANGED <<running, service, events, next_event_id, remote, conversation_context,
                   turns>>

NextBackend == BackendCreate \/ BackendSuggest

SpecBackend == InitBackend /\ [][NextBackend]_vars

-----------------------------------------------------------------------------
(* The in-memory fake called directly: create_event, check_availability    *)
(* and get_events for any stored events, in any order of creation.  In     *)
(* this specification last describes the last call of the fake.            *)

\* Starts of the events created: on and off the grid, in hour 14
CreatedStarts ==
    {ReplaceTime(ParseDate(Date1).t, 9, 0),
     ReplaceTime(ParseDate(Date1).t, 10, 45),
     ReplaceTime(ParseDate(Date1).t, 14, 0)}

CreatedDurations == {30, 120}

DescriptionAgenda == <<"Agenda">>

\* Starts and durations of the slots checked: slots that end where a created
\* event begins, begin where one ends, lie inside one, reach into hour 14 or
\* start in it, and slots of no length
CheckedStarts ==
    {ReplaceTime(ParseDate(Date1).t, 8, 30),
     ReplaceTime(ParseDate(Date1).t, 9, 30),
     ReplaceTime(ParseDate(Date1).t, 10, 0),
     ReplaceTime(ParseDate(Date1).t, 11, 0),
     ReplaceTime(ParseDate(Date1).t, 13, 30),
     ReplaceTime(ParseDate(Date1).t, 14, 30)}

CheckedDurations == {0, 30, 60}

\* Ranges of get_events: bounds that are starts of events, bounds between
\* them, and the whole day
ListedRanges ==
    {<<ReplaceTime(ParseDate(Date1).t, 9, 0), ReplaceTime(ParseDate(Date1).t, 10, 45)>>,
     <<ReplaceTime(ParseDate(Date1).t, 9, 1), ReplaceTime(ParseDate(Date1).t, 14, 0)>>,
     <<ParseDate(Date1).t, ReplaceTime(ParseDate(Date1).t, 23, 59)>>}

InitStore == InitWith({"mock"})

\* What create_event was called with, what it found and what it returned
Created(title, start_time, duration, description, before, made) ==
    [op |-> "create_event", title |-> title, start_time |-> start_time,
     duration |-> duration, description |-> description, before |-> before,
     id |-> made.id]

StoreCreate ==
    /\ Len(events) < MaxEvents
    /\ \E start_time \in CreatedStarts, duration \in CreatedDurations :
          /\ events' =
                Mock_create_event(Backend(events, next_event_id, remote), TitleSync,
                                  start_time, duration, DescriptionAgenda).be.events
          /\ next_event_id' =
                Mock_create_event(Backend(events, next_event_id, remote), TitleSync,
                                  start_time, duration, DescriptionAgenda).be.next_event_id
          /\ last' = Created(TitleSync, start_time, duration, DescriptionAgenda,
                             Backend(events, next_event_id, remote),
                             Mock_create_event(Backend(events, next_event_id, remote),
                                               TitleSync, start_time, duration,
                                               DescriptionAgenda))
    /\ UNCHANGED <<running, service, remote, conversation_context, now, turns>>

StoreCheck ==
    /\ \E start_time \in CheckedStarts, duration \in CheckedDurations :
          last' = [op |-> "check_availability", start_time |-> start_time,
                   duration |-> duration,
                   before |-> Backend(events, next_event_id, remote),
                   value |-> Mock_check_availability(events, start_time, duration)]
    /\ UNCHANGED <<running, service, events, next_event_id, remote, conversation_context,
                   now, turns>>

StoreGetEvents ==
    /\ \E range \in ListedRanges :
          last' = [op |-> "get_events", start_date |-> range[1],
                   end_date |-> range[2],
                   before |-> Backend(events, next_event_id, remote),
                   value |-> Mock_get_events(events, range[1], range[2])]
    /\ UNCHANGED <<running, service, events, next_event_id, remote, conversation_context,
                   now, turns>>

\* The availability questions put to the agent about the day of the stored
\* events: the date alone or with a time, the duration left out or given
DayChecks ==
    {Intent("check_availability", Parameters(Date1, t, AbsentStr, d), EmptyDict) :
        t \in {AbsentStr, Time10}, d \in {AbsentNum, IntVal(30)}}

\* process_message on the agent of the fake that holds the stored events,
\* called with an empty context
StoreTurn ==
    /\ \E extractor \in DayChecks :
          LET out == process_message(EmptyDict, extractor, service,
                                     Backend(events, next_event_id, remote),
                                     NoOracle, now)
          IN  /\ events' = out.be.events
              /\ next_event_id' = out.be.next_event_id
              /\ remote' = out.be.remote
              /\ last' = [op |-> "process_message", extractor |-> extractor,
                          before |-> Backend(events, next_event_id, remote),
                          calls |-> out.calls, response |-> out.response]
    /\ UNCHANGED <<running, service, conversation_context, now, turns>>

NextStore == StoreCreate \/ StoreCheck \/ StoreGetEvents \/ StoreTurn


SpecStore == InitStore /\ [][NextStore]_vars

-----------------------------------------------------------------------------
(* Two sessions whose booking turns run at the same time against one       *)
(* backend.  A turn of _book_appointment makes two calls of the service,   *)
(* check_availability and then create_event; each call is one step, and    *)
(* the steps of the two turns interleave in any order.  In this            *)
(* specification last is the sequence of the calls made so far.            *)

Sessions == {"s1", "s2"}

\* The requests of the two sessions: the same hour, an hour that overlaps
\* it, and the hour right after it
RaceTimes == {Time10, Time1030, Time11}

\* A turn that has its complete request and is about to check the slot
Arrived(time) ==
    [parameters |-> Parameters(Date1, time, TitleSync, AbsentNum),
     pc |-> "check", response |-> EmptyDict]

InitRace ==
    /\ service = "mock"
    /\ events = <<>>
    /\ next_event_id = 1
    /\ remote = <<>>
    /\ conversation_context = EmptyDict
    /\ now \in ClockReadings
    /\ turns = 0
    /\ last = <<>>
    /\ running \in [Sessions -> {Arrived(time) : time \in RaceTimes}]

\* start_time and duration of a turn's request
RaceStart(parameters) ==
    ParseDateTime(parameters["date"] \o <<" ">> \o parameters["time"]).t

RaceDuration(parameters) == Get(parameters, "duration", IntVal(DefaultDuration))

\* What the turn goes on with once check_availability has answered: the
\* conflict response, or the call of create_event
AfterCheck(turn, free) ==
    IF Refused(free)
    THEN [turn EXCEPT !.pc = "done",
                      !.response = [message |-> ConflictMessage(turn.parameters),
                                    context |-> EmptyDict]]
    ELSE [turn EXCEPT !.pc = "create"]

\* The response of a turn whose create_event returned
AfterCreate(turn, created) ==
    [turn EXCEPT !.pc = "done",
                 !.response =
                    [message |-> IF Truthy(created.id)
                                 THEN BookedMessage(turn.parameters, RaceDuration(turn.parameters), created.id)
                                 ELSE NotBookedMessage,
                     context |-> With(EmptyDict, "last_booking",
                                      [event_id |-> created.id,
                                       title |-> turn.parameters["title"],
                                       datetime |-> turn.parameters["date"] \o <<" ">> \o turn.parameters["time"]])]]

RaceCheckBy(s, free) ==
    /\ running' = [running EXCEPT ![s] = AfterCheck(running[s], free)]
    /\ turns' = turns + (IF Refused(free) THEN 1 ELSE 0)
    /\ last' = Append(last, [session |-> s,
                             call |-> Call("check_availability", RaceStart(running[s].parameters),
                                           RaceDuration(running[s].parameters), free.value, free.raised)])

RaceCheck(s) ==
    /\ running[s].pc = "check"
    /\ RaceCheckBy(s, check_availability(service, Backend(events, next_event_id, remote),
                                         RaceStart(running[s].parameters),
                                         RaceDuration(running[s].parameters), NoOracle.check))
    /\ UNCHANGED <<service, events, next_event_id, remote, conversation_context, now>>

RaceCreateBy(s, created) ==
    /\ events' = created.be.events
    /\ next_event_id' = created.be.next_event_id
    /\ remote' = created.be.remote
    /\ running' = [running EXCEPT ![s] = AfterCreate(running[s], created)]
    /\ turns' = turns + 1
    /\ last' = Append(last, [session |-> s,
                             call |-> Call("create_event", RaceStart(running[s].parameters),
                                           RaceDuration(running[s].parameters), Truthy(created.id), FALSE)])

\* The call of create_event raises before the service is entered: the except
\* branch of _book_appointment answers
RaceCreateRaises(s) ==
    /\ UNCHANGED <<events, next_event_id, remote>>
    /\ running' = [running EXCEPT ![s] =
                      [@ EXCEPT !.pc = "done",
                                !.response = Apology("I encountered an error while booking: ", "TypeError", "", EmptyDict)]]
    /\ turns' = turns + 1
    /\ last' = Append(last, [session |-> s,
                             call |-> Call("create_event", RaceStart(running[s].parameters),
                                           RaceDuration(running[s].parameters), FALSE, TRUE)])

RaceCreate(s) ==
    /\ running[s].pc = "create"
    /\ IF Binds(CreateEventKeywords, CreateEventParameters)
       THEN RaceCreateBy(s, create_event(service, Backend(events, next_event_id, remote),
                                         running[s].parameters["title"],
                                         RaceStart(running[s].parameters),
                                         RaceDuration(running[s].parameters),
                                         Get(running[s].parameters, "description", <<>>),
                                         NoOracle.create))
       ELSE RaceCreateRaises(s)
    /\ UNCHANGED <<service, conversation_context, now>>

NextRace == \E s \in Sessions : RaceCheck(s) \/ RaceCreate(s)

SpecRace == InitRace /\ [][NextRace]_vars

-----------------------------------------------------------------------------
(* Reading the last turn.                                                  *)

IsTurn == last # EmptyDict

\* The extractor's output matches the schema of a structured intent: an
\* object with message, action, parameters and context, the last two objects,
\* and a duration that is a number
IsIntent(v) ==
    /\ IsDict(v)
    /\ {"message", "action", "parameters", "context"} \subseteq DOMAIN v
    /\ IsDict(v.parameters)
    /\ IsDict(v.context)
    /\ IsInt(Get(v.parameters, "duration", IntVal(DefaultDuration)))

\* The last turn carried a structured intent with the given action
IntentTurn(action) ==
    /\ IsTurn
    /\ last.extractor.kind = "json"
    /\ IsIntent(last.extractor.value)
    /\ last.extractor.value.action = action

LastIntent == last.extractor.value

LastParameters == last.extractor.value.parameters

LastDuration == Get(LastParameters, "duration", IntVal(DefaultDuration))

\* The start the last booking turn asks for
LastBookingStart ==
    ParseDateTime(LastParameters["date"] \o <<" ">> \o LastParameters["time"])

\* A booking turn with all required fields whose date and time parse
CompleteBooking ==
    /\ IntentTurn("book_appointment")
    /\ missing_fields(LastParameters) = <<>>
    /\ LastBookingStart.ok

\* The backend's events after the last turn minus those before it
NoEventCreated ==
    /\ events = last.before.events
    /\ next_event_id = last.before.next_event_id
    /\ remote = last.before.remote

\* The stored events that occupy the slot of the last booking request
SlotEvents ==
    {i \in 1..Len(events) :
        /\ events[i].start_time = LastBookingStart.t
        /\ events[i].duration = LastDuration.n
        /\ events[i].title = LastParameters["title"]}

-----------------------------------------------------------------------------
(* C1: a booking turn with date, time and title whose slot is free adds    *)
(* exactly one event to the backend and returns its non-empty id in the    *)
(* response; the same request processed again immediately afterwards       *)
(* creates no event and reports a conflict, so that one event holds the    *)
(* slot.  Stated for the in-memory fake, whose answers the program decides *)
(* alone.                                                                  *)

\* A complete booking request handled by MockCalendarService
MockBooking == CompleteBooking /\ service = "mock"

C1_FreeSlotBooked ==
    (MockBooking /\ last.calls[1].ok) =>
        /\ Len(events) = Len(last.before.events) + 1
        /\ SubSeq(events, 1, Len(last.before.events)) = last.before.events
        /\ Truthy(events[Len(events)].id)
        /\ last.response.message =
              BookedMessage(LastParameters, LastDuration, events[Len(events)].id)
        /\ last.response.context["last_booking"].event_id = events[Len(events)].id

C1_RepeatRefused ==
    (MockBooking /\ last.repeats) =>
        /\ NoEventCreated
        /\ last.response.message = ConflictMessage(LastParameters)
        /\ Cardinality(SlotEvents) = 1

\* C1 as stated, for every duration
C1_AsStated == C1_FreeSlotBooked /\ C1_RepeatRefused

-----------------------------------------------------------------------------
(* C2: whenever check_availability answers false for the requested start   *)
(* and duration, a booking turn creates no event, returns the conflict     *)
(* message that offers alternatives, and returns the extractor's context   *)
(* with no last_booking entry added; against the fake a booking in hour 14 *)
(* never creates an event.                                                 *)

C2_ConflictRefused ==
    /\ (CompleteBooking /\ ~last.calls[1].ok) =>
          /\ NoEventCreated
          /\ Len(last.calls) = 1
          /\ last.response.message = ConflictMessage(LastParameters)
          /\ last.response.context = LastIntent.context
    /\ (CompleteBooking /\ service = "mock"
        /\ Hour(LastBookingStart.t) = BusyHour) =>
          /\ ~last.calls[1].ok
          /\ NoEventCreated

\* The scenario of the specification: 2025-03-10, 14:00, Sync, default duration
C2_Witness ==
    /\ CompleteBooking
    /\ service = "mock"
    /\ LastParameters = Parameters(Date1, Time14, TitleSync, AbsentNum)
    /\ last.response.message = ConflictMessage(LastParameters)
    /\ events = <<>>

-----------------------------------------------------------------------------
(* C3: in every turn create_event is called only right after a             *)
(* check_availability call of the same turn, for the same start and        *)
(* duration, that answered true; no turn creates without such a check.     *)

C3_CheckedBeforeCreate ==
    IsTurn =>
        \A i \in 1..Len(last.calls) :
            last.calls[i].op = "create_event" =>
                /\ i > 1
                /\ last.calls[i - 1].op = "check_availability"
                /\ last.calls[i - 1].ok
                /\ ~last.calls[i - 1].raised
                /\ last.calls[i - 1].start = last.calls[i].start
                /\ last.calls[i - 1].duration = last.calls[i].duration

\* A booking turn whose check answered true and which went on to call
\* create_event
C3_Witness ==
    /\ IsTurn
    /\ Len(last.calls) = 2
    /\ last.calls[1].ok
    /\ last.calls[2].op = "create_event"

-----------------------------------------------------------------------------
(* C4: a booking turn in which date, time or title is absent or empty      *)
(* returns a message naming exactly the missing fields, returns the        *)
(* extractor's context with pending_booking set to the turn's parameters,  *)
(* and calls neither check_availability nor create_event.                  *)

\* The required fields that are absent from the parameters, or empty
AbsentOrEmpty(p) ==
    {f \in {"date", "time", "title"} : f \notin DOMAIN p \/ p[f] = <<>>}

\* The field names a message lists after its first chunk
NamedFields(message) ==
    {message[i] : i \in 2..Len(message)} \ {", "}

C4_MissingFieldsAsked ==
    (IntentTurn("book_appointment") /\ AbsentOrEmpty(LastParameters) # {}) =>
        /\ last.response.message[1] = MissingMessage(<<>>)[1]
        /\ NamedFields(last.response.message) = AbsentOrEmpty(LastParameters)
        /\ Len(last.response.message) = 2 * Cardinality(AbsentOrEmpty(LastParameters))
        /\ last.response.context =
              With(LastIntent.context, "pending_booking", LastParameters)
        /\ last.calls = <<>>
        /\ NoEventCreated

C4_Witness ==
    /\ IntentTurn("book_appointment")
    /\ LastParameters = Parameters(Date1, Time10, <<>>, AbsentNum)
    /\ NamedFields(last.response.message) = {"title"}
    /\ "pending_booking" \in DOMAIN last.response.context

-----------------------------------------------------------------------------
(* C5: a pending booking is resumed on the next turn: when the caller      *)
(* passes a context holding pending_booking into a booking turn whose      *)
(* parameters supply only fields the stash lacks, the turn validates the   *)
(* stashed fields merged with the new ones (new values overriding) and     *)
(* books with them instead of asking again for the stashed fields.         *)

\* The pending_booking of the context the caller passed into the last turn
Stash == last.context["pending_booking"]

\* The stashed parameters overridden by the parameters of the last turn
MergedParameters ==
    [k \in DOMAIN Stash \cup DOMAIN LastParameters |->
        IF k \in DOMAIN LastParameters THEN LastParameters[k] ELSE Stash[k]]

\* The last turn is a booking turn that supplies only fields the stash lacks
ResumesPending ==
    /\ IntentTurn("book_appointment")
    /\ "pending_booking" \in DOMAIN last.context
    /\ DOMAIN LastParameters \cap {"date", "time", "title"} # {}
    /\ DOMAIN LastParameters \cap {"date", "time", "title"}
          \subseteq AbsentOrEmpty(Stash)

C5_PendingResumed ==
    ResumesPending =>
        IF AbsentOrEmpty(MergedParameters) = {}
        THEN /\ last.calls # <<>>
             /\ last.calls[1].op = "check_availability"
             /\ last.calls[1].start =
                   ParseDateTime(MergedParameters["date"] \o <<" ">>
                                 \o MergedParameters["time"]).t
        ELSE NamedFields(last.response.message) = AbsentOrEmpty(MergedParameters)

-----------------------------------------------------------------------------
(* C8: whenever check_availability or create_event fails on the live       *)
(* calendar during a turn, the turn returns an apology and the extractor's *)
(* context unchanged, with no last_availability_check, last_booking or     *)
(* suggested_times entry added, and the failure is not reported as a slot  *)
(* conflict.                                                               *)

\* The live calendar's answer to a call of the last turn was a failure
CheckFailed ==
    /\ service = "live"
    /\ last.calls # <<>>
    /\ last.calls[1].op = "check_availability"
    /\ last.oracle.check \in {"HttpError", "Exception"}

CreateFailed ==
    /\ service = "live"
    /\ Len(last.calls) = 2
    /\ last.calls[2].op = "create_event"
    /\ ~last.calls[2].raised
    /\ last.oracle.create \in {"HttpError", "Exception"}

C8_BackendFailureApology ==
    ((IntentTurn("book_appointment") \/ IntentTurn("check_availability"))
     /\ (CheckFailed \/ CreateFailed)) =>
        /\ last.response.context = LastIntent.context
        /\ last.response.message # ConflictMessage(LastParameters)
        /\ last.response.message #
              BusyMessage(LastParameters["date"],
                          Get(LastParameters, "time", PyNone))

-----------------------------------------------------------------------------
(* C6: for every prior context, every output of the extractor (any JSON    *)
(* value, with any of the keys message, action, parameters, context        *)
(* missing or of the wrong type, text that is not JSON, or a failure) and  *)
(* every answer of the backend, process_message returns an object that     *)
(* holds both a message and a context.                                     *)

C6_MessageAndContext ==
    IsTurn =>
        /\ IsDict(last.response)
        /\ "message" \in DOMAIN last.response
        /\ "context" \in DOMAIN last.response

-----------------------------------------------------------------------------
(* C7: whenever the extractor's output is not JSON, or is JSON that does   *)
(* not match the schema of a structured intent (an action outside the four *)
(* of the schema, for one), the response has action general_chat, its      *)
(* context is the prior context, no backend operation is invoked, and, for *)
(* text that is not JSON, its message is that text.                        *)

KnownActions ==
    {"check_availability", "book_appointment", "suggest_times", "general_chat"}

SchemaMismatch ==
    /\ IsTurn
    /\ last.extractor.kind \in {"text", "json"}
    /\ last.extractor.kind = "json" =>
          \/ ~IsIntent(last.extractor.value)
          \/ last.extractor.value.action \notin KnownActions

C7_DegradesToGeneralChat ==
    SchemaMismatch =>
        /\ IsDict(last.response)
        /\ Get(last.response, "action", "") = "general_chat"
        /\ Get(last.response, "context", PyNone) = last.context
        /\ last.extractor.kind = "text" =>
              Get(last.response, "message", PyNone) = last.extractor.content
        /\ last.calls = <<>>
        /\ NoEventCreated

-----------------------------------------------------------------------------
(* C9: for each of the three actions, when the date is not a valid         *)
(* YYYY-MM-DD text or the time is not a valid HH:MM text, the turn returns *)
(* an apology, invokes no backend operation, creates no event and returns  *)
(* the extractor's context with no outcome entry.  The amended statement   *)
(* is about the text the action parses: date and time for a booking with   *)
(* all required fields, the non-empty date with the non-empty time, if     *)
(* any, for an availability check, the non-empty date alone for            *)
(* suggestions.                                                            *)

ApologyPrefixes ==
    {"I had trouble checking your calendar: ",
     "I encountered an error while booking: ",
     "I had trouble finding available times: ",
     "I had trouble with that request: "}

\* The turn apologised, called no backend operation and left the context
Apologised ==
    /\ last.response.message[1] \in ApologyPrefixes
    /\ last.calls = <<>>
    /\ NoEventCreated
    /\ last.response.context = LastIntent.context

LastDate == Get(LastParameters, "date", PyNone)

LastTime == Get(LastParameters, "time", PyNone)

\* The date, or the time, of the last turn is present and no valid text
InvalidDateOrTime ==
    \/ "date" \in DOMAIN LastParameters /\ ~ParseDate(LastDate).ok
    \/ "time" \in DOMAIN LastParameters /\ ~ParseTime(LastTime).ok

C9_AsStated ==
    \A action \in {"check_availability", "book_appointment", "suggest_times"} :
        (IntentTurn(action) /\ InvalidDateOrTime) => Apologised

\* strptime rejects the text the action of the last turn parses
RejectedText ==
    \/ /\ IntentTurn("book_appointment")
       /\ AbsentOrEmpty(LastParameters) = {}
       /\ ~(ParseDate(LastDate).ok /\ ParseTime(LastTime).ok)
    \/ /\ IntentTurn("check_availability")
       /\ Truthy(LastDate)
       /\ ~(ParseDate(LastDate).ok /\ (Truthy(LastTime) => ParseTime(LastTime).ok))
    \/ /\ IntentTurn("suggest_times")
       /\ Truthy(LastDate)
       /\ ~ParseDate(LastDate).ok

C9_RejectedTextApology ==
    /\ RejectedText => Apologised
    /\ (IntentTurn("suggest_times") /\ ParseDate(LastDate).ok) =>
          last.response.message[1] \notin ApologyPrefixes

C9_Witness ==
    /\ IntentTurn("book_appointment")
    /\ LastDate = Date1
    /\ LastTime = Time2500
    /\ last.response.message[1] = "I encountered an error while booking: "
    /\ last.calls = <<>>

-----------------------------------------------------------------------------
(* C10: for every target date, duration, current time and stored events,   *)
(* what suggest_times returns for business hours is in strictly ascending  *)
(* order, every entry lies on the 30-minute grid within hours [9, 17) of   *)
(* the target date, no entry is before the time of the call, there are at  *)
(* most 10 entries, and check_availability holds for every entry; when the *)
(* whole date is in the past the result is empty, and no error is raised.  *)

\* The last call of the service is suggest_times for business hours
BusinessSuggest ==
    /\ last # EmptyDict
    /\ last.op = "suggest_times"
    /\ last.business_hours_only

\* check_availability for the i-th entry the last call returned: the fake's
\* answer for the stored events, or the live calendar's answer of the scan
EntryAvailable(i) ==
    IF service = "mock"
    THEN Mock_check_availability(events, last.suggestions[i], last.duration)
    ELSE \A k \in last.busy :
            Candidate(last.target_date, TRUE, k) # last.suggestions[i]

C10_SuggestionsWellFormed ==
    BusinessSuggest =>
        /\ ~last.raised
        /\ \A i, j \in 1..Len(last.suggestions) :
              i < j => last.suggestions[i] < last.suggestions[j]
        /\ \A i \in 1..Len(last.suggestions) :
              /\ last.suggestions[i] \div MinutesPerDay
                    = last.target_date \div MinutesPerDay
              /\ last.suggestions[i] % MinutesPerDay \in
                    {60 * h + m : h \in 9..16, m \in {0, 30}}
              /\ 2 * last.suggestions[i] >= last.clock
              /\ EntryAvailable(i)
        /\ Len(last.suggestions) <= 10
        /\ (last.clock > 2 * ((last.target_date \div MinutesPerDay) + 1) * MinutesPerDay)
              => last.suggestions = <<>>

\* A scan in the middle of the day, with stored events, that returns entries
C10_Witness ==
    /\ BusinessSuggest
    /\ service = "mock"
    /\ Len(events) = 2
    /\ last.clock = 2 * ReplaceTime(ParseDate(Date1).t, 11, 0) + 1
    /\ last.target_date \div MinutesPerDay = ParseDate(Date1).t \div MinutesPerDay
    /\ Len(last.suggestions) > 0
    /\ last.suggestions[1] > ReplaceTime(ParseDate(Date1).t, 11, 30)
    /\ Len(last.suggestions) < MockMaxSuggestions

-----------------------------------------------------------------------------
(* C11: suggest_times returns exactly the grid candidates that are not in  *)
(* the past and for which check_availability is true, in chronological     *)
(* order, truncated only by the cap of 10: with k such candidates the      *)
(* result is the first min(k, 10) of them, for both implementations.       *)

\* check_availability for candidate k of the last call
CandidateAvailable(k) ==
    IF service = "mock"
    THEN Mock_check_availability(events, Candidate(last.target_date, TRUE, k),
                                 last.duration)
    ELSE k \notin last.busy

\* The candidates of the last call that are not before its clock reading and
\* are available, in the order of the grid
EligibleCandidates ==
    SelectSeq([k \in 1..16 |-> k],
              LAMBDA k : /\ 2 * Candidate(last.target_date, TRUE, k) >= last.clock
                         /\ CandidateAvailable(k))

\* The clock did not move on while the last call ran
SteadyClock == now = last.clock

C11_FirstTenEligible ==
    (BusinessSuggest /\ SteadyClock) =>
        /\ Len(last.suggestions) =
              (IF Len(EligibleCandidates) < 10 THEN Len(EligibleCandidates) ELSE 10)
        /\ \A i \in 1..Len(last.suggestions) :
              /\ i <= Len(EligibleCandidates)
              /\ last.suggestions[i] =
                    Candidate(last.target_date, TRUE, EligibleCandidates[i])

-----------------------------------------------------------------------------
(* C12 *)

\* The last call of the fake was check_availability
StoreChecked == last # EmptyDict /\ last.op = "check_availability"

\* The minutes of the half-open interval [start, start + duration)
IntervalMinutes(start, duration) == start .. (start + duration - 1)

\* Some stored event's half-open interval has a minute in common with the
\* half-open interval of the slot checked
SomeEventShares ==
    \E i \in 1..Len(events) :
        IntervalMinutes(events[i].start_time, events[i].duration)
            \cap IntervalMinutes(last.start_time, last.duration) # {}

StartsInBusyHour == (last.start_time % MinutesPerDay) \div 60 = BusyHour

\* A slot that ends exactly where a stored event begins, or begins exactly
\* where one ends, and does not start in hour 14
BackToBack ==
    /\ ~StartsInBusyHour
    /\ \A i \in 1..Len(events) :
          \/ last.start_time + last.duration <= events[i].start_time
          \/ events[i].start_time + events[i].duration <= last.start_time
    /\ \E i \in 1..Len(events) :
          \/ last.start_time + last.duration = events[i].start_time
          \/ events[i].start_time + events[i].duration = last.start_time

-----------------------------------------------------------------------------
(* C13 *)

\* The last call of the fake was create_event
StoreCreated == last # EmptyDict /\ last.op = "create_event"

\* The event the last create_event was asked to store, under the id returned
RequestedEvent ==
    [id |-> last.id, title |-> last.title, start_time |-> last.start_time,
     duration |-> last.duration, description |-> last.description]

\* check_availability would have refused the slot of the last create_event
CreatedOverBusy ==
    ~Mock_check_availability(last.before.events, last.start_time, last.duration)

(* C13: create_event on the fake always succeeds: it adds exactly one event *)
(* with the given title, start, duration and description, also when the     *)
(* slot overlaps a stored event or lies in hour 14, and returns a non-empty *)
(* id different from every id stored before; the stored ids are pairwise    *)
(* distinct and next_event_id is the number of stored events plus one.      *)
C13_CreateAlwaysStores ==
    /\ next_event_id = Len(events) + 1
    /\ \A i, j \in 1..Len(events) : i # j => events[i].id # events[j].id
    /\ StoreCreated =>
          /\ events = Append(last.before.events, RequestedEvent)
          /\ last.id # <<>>
          /\ \A i \in 1..Len(last.before.events) : last.before.events[i].id # last.id

\* A second event created in hour 14 over a stored event of the same slot
C13_Witness ==
    /\ StoreCreated
    /\ Len(last.before.events) = 1
    /\ CreatedOverBusy
    /\ Hour(last.start_time) = BusyHour
    /\ last.before.events[1].start_time = last.start_time
    /\ Len(events) = 2

-----------------------------------------------------------------------------
(* C14 *)

\* The last call of the fake was get_events
StoreListed == last # EmptyDict /\ last.op = "get_events"

\* The positions of the stored events whose start lies in the closed range
\* of the last get_events
InRange == {i \in 1..Len(events) : last.start_date <= events[i].start_time /\ events[i].start_time <= last.end_date}

\* The last get_events returned each stored event of the range once, and
\* nothing else
ListedExactlyInRange ==
    /\ Len(last.value) = Cardinality(InRange)
    /\ \A i \in InRange : \E j \in 1..Len(last.value) : last.value[j] = ListedEvent(events[i])
    /\ \A j \in 1..Len(last.value) : \E i \in InRange : last.value[j] = ListedEvent(events[i])

ListedByStart ==
    \A i, j \in 1..Len(last.value) : i < j => last.value[i].start <= last.value[j].start

(* C14: get_events(start, end) on the fake returns exactly the stored       *)
(* events whose start t satisfies start <= t <= end, both bounds inclusive, *)
(* and returns them sorted by start time whatever the order of creation.    *)
C14_InRangeSortedByStart ==
    StoreListed => (ListedExactlyInRange /\ ListedByStart)

-----------------------------------------------------------------------------
(* C15 *)

\* A suggest_times turn whose date parses
SuggestTurn ==
    /\ IntentTurn("suggest_times")
    /\ Truthy(Get(LastParameters, "date", PyNone))
    /\ ParseDate(Get(LastParameters, "date", PyNone)).ok

LastTargetDate == ParseDate(LastParameters["date"]).t

\* The availability predicate of the last turn over the candidates of the
\* grid: the fake's answer for the stored events, or the live calendar's
LastAvailability ==
    [k \in 1..NumCandidates(TRUE) |->
        IF service = "mock"
        THEN Mock_check_availability(last.before.events, Candidate(LastTargetDate, TRUE, k), LastDuration.n)
        ELSE k \notin last.oracle.busy]

\* The slots either suggest_times finds for that predicate at a clock
\* reading: the scan that stops at the given number of suggestions
SlotsVia(cap, clock) ==
    ScanSlots(LastAvailability, LastTargetDate, TRUE, [k \in 1..NumCandidates(TRUE) |-> clock], cap, 1, <<>>, <<>>).suggestions

\* The message and the suggested_times of a turn that is given these slots
TurnFor(slots) ==
    [message |-> SuggestionsMessage(LastParameters["date"], slots),
     suggested_times |-> [i \in 1..Len(Shown(slots)) |-> StrfHM(Shown(slots)[i])]]

LastTurnShows(shown) ==
    /\ last.response["message"] = shown.message
    /\ IsDict(last.response["context"])
    /\ "suggested_times" \in DOMAIN last.response["context"]
    /\ last.response["context"]["suggested_times"] = shown.suggested_times

(* C15: for the same availability predicate and the same current time, a    *)
(* suggest_times turn gives the same message and the same suggested_times   *)
(* list whether the slots come from GoogleCalendarService.suggest_times or  *)
(* from MockCalendarService.suggest_times.                                  *)
C15_SameTurnEitherService ==
    SuggestTurn =>
        /\ LastTurnShows(TurnFor(SlotsVia(LiveMaxSuggestions, last.clock)))
        /\ LastTurnShows(TurnFor(SlotsVia(MockMaxSuggestions, last.clock)))

\* A turn of the live service, which finds more slots than the fake's scan
\* keeps, and a turn of the fake with a stored event
C15_Witness ==
    /\ SuggestTurn
    /\ service = "live"
    /\ last.oracle.busy = {1, 2, 3}
    /\ Len(last.response["context"]["suggested_times"]) = ShownSuggestions

-----------------------------------------------------------------------------
(* C16 *)

\* s is t, or t with one more element at its end
SameOrOneMore(s, t) ==
    /\ Len(s) \in {Len(t), Len(t) + 1}
    /\ \A i \in 1..Len(t) : s[i] = t[i]

\* The availability check of the last turn answered true
CheckedFree ==
    /\ last.calls # <<>>
    /\ last.calls[1].op = "check_availability"
    /\ last.calls[1].ok

(* C16: the backend's events and id counter change only in a               *)
(* book_appointment turn that has date, time and title, whose date and     *)
(* time parse and whose availability check answered true; every other      *)
(* turn, check_availability and suggest_times turns included, leaves the   *)
(* backend as it was; no turn adds more than one event, and none removes   *)
(* or alters an event that was there.                                      *)
C16_BackendChangesOnlyWhenBooking ==
    IsTurn =>
        /\ ~NoEventCreated => (CompleteBooking /\ CheckedFree)
        /\ SameOrOneMore(events, last.before.events)
        /\ SameOrOneMore(remote, last.before.remote)
        /\ Len(events) + Len(remote) <= Len(last.before.events) + Len(last.before.remote) + 1
        /\ next_event_id = last.before.next_event_id + (Len(events) - Len(last.before.events))

\* A turn that went as far as the call of create_event, and a turn that
\* called check_availability only: the backend is as it was
C16_Witness ==
    /\ IsTurn
    /\ CheckedFree
    /\ NoEventCreated
    /\ \/ CompleteBooking /\ Len(last.calls) = 2
       \/ IntentTurn("check_availability")

-----------------------------------------------------------------------------
(* C17 *)

\* The context of the last response
LastResponseContext == Get(last.response, "context", EmptyDict)

\* The keys of the returned context that the caller's context did not have
AddedEntries ==
    IF IsDict(LastResponseContext) /\ IsDict(last.context)
    THEN DOMAIN LastResponseContext \ DOMAIN last.context
    ELSE {}

(* C17: process_message never modifies the context value the caller passed *)
(* in: after the call the caller's dict is what it was, and the entries    *)
(* added by the turn's outcome are in the returned context only.           *)
C17_CallerContextUntouched ==
    IsTurn =>
        /\ last.caller = last.context
        /\ \A k \in AddedEntries : k \notin DOMAIN last.caller

\* A turn that made the two assignments and returned a context with an
\* outcome entry the caller's context did not have
C17_Witness ==
    /\ IsTurn
    /\ "last_availability_check" \in AddedEntries
    /\ last.caller = last.context

-----------------------------------------------------------------------------
(* C18 *)

\* The last turn created an event in the backend
TurnCreated == IsTurn /\ ~NoEventCreated

\* The id of the event the last turn created
CreatedId ==
    IF service = "mock" THEN events[Len(events)].id ELSE LiveEventId(Len(remote))

\* The text holds the part as a run of consecutive pieces
Contains(text, part) ==
    \E i \in 1..Len(text) :
        /\ i + Len(part) - 1 <= Len(text)
        /\ SubSeq(text, i, i + Len(part) - 1) = part

\* The returned context is the extractor's context with a last_booking entry
\* that carries the id
ReportsBooking(context, id) ==
    /\ IsDict(context)
    /\ IsDict(Get(last.extractor.value, "context", EmptyDict))
    /\ "last_booking" \in DOMAIN context
    /\ context["last_booking"].event_id = id
    /\ DOMAIN context = DOMAIN Get(last.extractor.value, "context", EmptyDict) \cup {"last_booking"}
    /\ \A k \in DOMAIN context \ {"last_booking"} :
          context[k] = Get(last.extractor.value, "context", EmptyDict)[k]

(* C18: whenever a turn creates an event, the response reports it: the     *)
(* message contains the event's id and the returned context is the         *)
(* extractor's context with last_booking.event_id equal to that id; no     *)
(* turn creates an event and then returns an error or omits the booking.   *)
C18_CreatedEventReported ==
    TurnCreated =>
        /\ Get(last.response, "action", "") # "error"
        /\ last.response["message"][1] \notin ApologyPrefixes
        /\ Contains(last.response["message"], CreatedId)
        /\ ReportsBooking(LastResponseContext, CreatedId)

-----------------------------------------------------------------------------
(* C19 *)

CheckTurn == IntentTurn("check_availability")

\* The start a check_availability turn asks about: the date with the time,
\* or the date alone
LastCheckStart ==
    IF Truthy(LastTime) THEN ParseDateTime(LastDate \o <<" ">> \o LastTime)
    ELSE ParseDate(LastDate)

\* The backend's answer for that start: the fake's for the events it holds,
\* or the live calendar's, which is free when it lists no event
BackendAnswer ==
    IF service = "mock"
    THEN Mock_check_availability(last.before.events, LastCheckStart.t, LastDuration.n)
    ELSE last.oracle.check = "empty"

(* C19: a check_availability turn whose date parses returns the extractor's *)
(* context with last_availability_check = {date, time, available}, where    *)
(* available is the backend's answer, and a message that states             *)
(* availability exactly when that flag is true and a conflict otherwise; a  *)
(* check_availability turn without a date asks for the date, performs no    *)
(* backend operation and returns the extractor's context unchanged.         *)
C19_CheckReported ==
    CheckTurn =>
        /\ (Truthy(LastDate) /\ LastCheckStart.ok) =>
              /\ last.response.context =
                    With(LastIntent.context, "last_availability_check",
                         [date |-> LastDate, time |-> LastTime, available |-> BackendAnswer])
              /\ last.response.message =
                    (IF BackendAnswer THEN AvailableMessage(LastDate, LastTime)
                     ELSE BusyMessage(LastDate, LastTime))
              /\ AvailableMessage(LastDate, LastTime) # BusyMessage(LastDate, LastTime)
        /\ ~Truthy(LastDate) =>
              /\ last.response.message = AskDateForCheck
              /\ last.calls = <<>>
              /\ NoEventCreated
              /\ last.response.context = LastIntent.context

\* A check of 14:00 on the fake, answered with a conflict, after a turn that
\* left an entry in the context
C19_Witness ==
    /\ CheckTurn
    /\ service = "mock"
    /\ LastTime = Time14
    /\ ~BackendAnswer
    /\ ~last.response.context["last_availability_check"].available
    /\ LastIntent.context # EmptyDict

-----------------------------------------------------------------------------
(* C20 *)

\* The slots suggest_times returned in the last turn: the candidates whose
\* check answered true, in the order of the scan
ReturnedSlots ==
    LET found == SelectSeq(last.calls, LAMBDA c : c.op = "check_availability" /\ c.ok)
    IN  [i \in 1..Len(found) |-> found[i].start]

\* min(5, n) for the n slots returned
NumListed == IF Len(ReturnedSlots) < 5 THEN Len(ReturnedSlots) ELSE 5

\* The line that lists the slot as the i-th: "i. HH:MM" and a line break
ListedLine(i, slot) ==
    <<DigitChars[i + 1], ". ">>
    \o <<DigitChars[(Hour(slot) \div 10) + 1], DigitChars[(Hour(slot) % 10) + 1], ":",
         DigitChars[(Minute(slot) \div 10) + 1], DigitChars[(Minute(slot) % 10) + 1]>>
    \o <<"\n">>

\* The pieces of the message before its first line: the opening, the date
\* and ":\n"
BeforeLines == 1 + Len(LastParameters["date"]) + 1

\* The message opens the list, numbers the first NumListed slots from 1,
\* each on its line, and closes with the question
ListsSlots(message) ==
    /\ Len(message) = BeforeLines + 8 * NumListed + 1
    /\ message[1] = "Here are some available times on "
    /\ SubSeq(message, 2, BeforeLines - 1) = LastParameters["date"]
    /\ \A i \in 1..NumListed :
          SubSeq(message, BeforeLines + 8 * (i - 1) + 1, BeforeLines + 8 * i) = ListedLine(i, ReturnedSlots[i])
    /\ message[Len(message)] = "\nWhich time works best for you?"

(* C20: a suggest_times turn whose date parses lists in its message,        *)
(* numbered from 1 and in chronological order, exactly the first min(5, n)  *)
(* of the n slots suggest_times returned, and its context's suggested_times *)
(* is that same list; when no slot is returned the message says that no     *)
(* slot is available, suggested_times is empty, and it is not an error.     *)
C20_SuggestionsListed ==
    SuggestTurn =>
        /\ \A i, j \in 1..Len(ReturnedSlots) : i < j => ReturnedSlots[i] < ReturnedSlots[j]
        /\ last.response.context =
              With(LastIntent.context, "suggested_times",
                   [i \in 1..NumListed |-> SubSeq(ListedLine(i, ReturnedSlots[i]), 3, 7)])
        /\ last.response.action = "suggest_times"
        /\ ReturnedSlots # <<>> => ListsSlots(last.response.message)
        /\ ReturnedSlots = <<>> =>
              last.response.message =
                 <<"I couldn't find any available slots on ">> \o LastParameters["date"]
                 \o <<". Would you like to try a different date?">>

\* A turn of the live service that was given ten slots and lists five
C20_Witness ==
    /\ SuggestTurn
    /\ Len(ReturnedSlots) = 10
    /\ Len(last.response.context["suggested_times"]) = 5

-----------------------------------------------------------------------------
(* C21 *)

ChatTurn == IntentTurn("general_chat")

(* C21: when the extractor's action is general_chat, the turn returns the  *)
(* extractor's message and the extractor's context unchanged and invokes   *)
(* no backend operation.                                                   *)
C21_ChatReturnedUnchanged ==
    ChatTurn =>
        /\ last.response.message = LastIntent.message
        /\ last.response.context = LastIntent.context
        /\ last.calls = <<>>
        /\ NoEventCreated

\* A general_chat turn after an availability check: the extractor hands
\* back the context with the check's entry
C21_Witness ==
    /\ ChatTurn
    /\ LastIntent.context # EmptyDict
    /\ "last_availability_check" \in DOMAIN last.response.context

-----------------------------------------------------------------------------
(* C22 *)

\* Both concurrent turns have returned
BothDone == \A s \in Sessions : running[s].pc = "done"

\* The positions in the sequence of calls at which some session made the
\* given call
CallsOf(op) == {i \in 1..Len(last) : last[i].call.op = op}

\* Both availability checks answered true before either call of create_event
RacedChecks ==
    /\ \A s \in Sessions :
          \E i \in CallsOf("check_availability") : last[i].session = s /\ last[i].call.ok
    /\ \A i \in CallsOf("check_availability") : \A j \in CallsOf("create_event") : i < j

\* The half-open intervals of the two requests have a minute in common
RequestsOverlap ==
    IntervalMinutes(RaceStart(running["s1"].parameters), RaceDuration(running["s1"].parameters).n)
        \cap IntervalMinutes(RaceStart(running["s2"].parameters), RaceDuration(running["s2"].parameters).n) # {}

\* The backend holds two events whose half-open intervals have a minute in
\* common
StoredOverlap ==
    \E i, j \in 1..Len(events) :
        /\ i < j
        /\ IntervalMinutes(events[i].start_time, events[i].duration)
              \cap IntervalMinutes(events[j].start_time, events[j].duration) # {}

\* The turn of the session reported a booking
ReportedBooked(s) ==
    /\ "last_booking" \in DOMAIN running[s].response.context
    /\ Truthy(running[s].response.context["last_booking"].event_id)

(* C22: the check-then-create booking path is not atomic.  When two        *)
(* booking turns for overlapping slots run at the same time against one     *)
(* backend and both availability checks answer true before either           *)
(* creation, both turns create an event and the backend ends with two       *)
(* overlapping events.                                                      *)
C22_RacedTurnsBothCreate ==
    (BothDone /\ RequestsOverlap /\ RacedChecks) =>
        /\ Len(events) = 2
        /\ StoredOverlap
        /\ \A s \in Sessions : ReportedBooked(s)

-----------------------------------------------------------------------------
(* C23 *)

\* The calls of the turn that left the agent for the calendar.  On the live
\* calendar these are the requests: one events().list() for every
\* check_availability, those of the scan of suggest_times included, and one
\* events().insert() for a create_event that was entered.  On the in-memory
\* fake they are the calls the agent itself made, the scan of suggest_times
\* being one call.  A call of create_event that raised while binding its
\* keywords never left the agent.
CalendarCalls ==
    LET calls == last.calls
        entered(i) == ~(calls[i].op = "create_event" /\ calls[i].raised)
    IN  IF service = "mock"
        THEN {i \in 1..Len(calls) :
                /\ entered(i)
                /\ calls[1].op = "suggest_times" => i = 1}
        ELSE {i \in 1..Len(calls) : entered(i) /\ calls[i].op # "suggest_times"}

\* The extractor's one outcome precedes the calendar calls: a turn whose
\* extractor outcome is no object makes none
ExtractorFirst == last.extractor.kind # "json" => last.calls = <<>>

(* C23: in every turn the extractor is called once, before any call of the  *)
(* calendar, and the turn makes at most two external calls in sequence: the *)
(* extractor call, then at most one call of the calendar.                   *)
C23_AtMostOneCalendarCall ==
    IsTurn => (ExtractorFirst /\ Cardinality(CalendarCalls) <= 1)

-----------------------------------------------------------------------------
(* C24 *)

\* The agent has answered an availability question that names a date and no
\* time, put to it while the fake held the events of last.before
DayCheckTurn ==
    /\ last # EmptyDict
    /\ last.op = "process_message"
    /\ last.extractor.value.action = "check_availability"
    /\ Truthy(Get(last.extractor.value.parameters, "date", PyNone))
    /\ ~Truthy(Get(last.extractor.value.parameters, "time", PyNone))

\* The minutes of the day the question names
DayMinutes ==
    IntervalMinutes(ParseDate(last.extractor.value.parameters["date"]).t, MinutesPerDay)

\* The stored events that lie on that day
EventsOnDay ==
    {i \in 1..Len(last.before.events) :
        \/ last.before.events[i].start_time \in DayMinutes
        \/ IntervalMinutes(last.before.events[i].start_time,
                           last.before.events[i].duration) \cap DayMinutes # {}}

\* The answer reports the day as available
DayReportedAvailable ==
    /\ "last_availability_check" \in DOMAIN last.response.context
    /\ last.response.context["last_availability_check"].available = TRUE
    /\ last.response["message"][1] = "Great! You're available on "

(* C24: a check_availability turn with a date and no time checks the whole  *)
(* day: it reports a conflict whenever a stored event lies on that date and *)
(* reports the date as available only when no event lies on it.             *)
C24_DateOnlyChecksWholeDay ==
    DayCheckTurn => (DayReportedAvailable <=> EventsOnDay = {})

-----------------------------------------------------------------------------
(* C25 *)

\* The minutes from 14:00 to 15:00 of the day of the slot checked
BusyPeriod ==
    IntervalMinutes(last.start_time - (last.start_time % MinutesPerDay) + BusyHour * 60, 60)

\* The slot checked has a minute in common with the busy period
OverlapsBusyPeriod ==
    IntervalMinutes(last.start_time, last.duration) \cap BusyPeriod # {}

(* C25: the fake simulates a busy period from 2 PM to 3 PM: every slot      *)
(* whose interval [start, start + duration) overlaps [14:00, 15:00) of its  *)
(* day is reported unavailable by check_availability.                       *)
C25_BusyPeriodUnavailable ==
    (StoreChecked /\ OverlapsBusyPeriod) => last.value = FALSE

-----------------------------------------------------------------------------
(* C26 *)

\* Every stored event has a positive duration
PositiveDurations == \A i \in 1..Len(events) : events[i].duration > 0

\* No stored event starts in hour 14
NoBusyHourStart ==
    \A i \in 1..Len(events) :
        (events[i].start_time % MinutesPerDay) \div 60 # BusyHour

====
